---------------------------- MODULE Spec2Model ----------------------------
(***************************************************************************)
(* Volume metrics of a YRFS-backed volume: metricsYRFS.GetMetrics and the  *)
(* three probes of package yrfs it runs (DiskUsage, Find, FsInfo).         *)
(*                                                                         *)
(* Text (command output, tokens, formatted numbers) is a sequence of       *)
(* one-character strings.  Numbers beyond 32 bits (a float64 significand,  *)
(* a byte count scaled by 1024^4) are sequences of decimal digits, most    *)
(* significant digit first.                                                *)
(***************************************************************************)
EXTENDS Integers, Sequences, FiniteSets, TLC

(***************************************************************************)
(* Bounds of the model.                                                    *)
(***************************************************************************)
\* longest magnitude token generated from TokenChars
MaxTokenLen == 2
\* most entries the tree traversal visits
MaxEntries == 2
\* largest block count the statistics query reports
MaxBlocks == 3
\* largest inode count the statistics query reports
MaxFiles == 1
\* width in bits of the signed integers FsInfo computes in (int64, scaled down)
Width == 6

(***************************************************************************)
(* Decimal digit sequences.                                                *)
(***************************************************************************)
DigitChars == <<"0", "1", "2", "3", "4", "5", "6", "7", "8", "9">>

IsDigit(c) == \E i \in 1..10 : DigitChars[i] = c

DigitVal(c) == (CHOOSE i \in 1..10 : DigitChars[i] = c) - 1

DigitChar(d) == DigitChars[d + 1]

\* the digit values of a text made of digits
ToDigits(s) == [i \in 1..Len(s) |-> DigitVal(s[i])]

\* the text of a digit sequence
ToChars(d) == [i \in 1..Len(d) |-> DigitChar(d[i])]

RECURSIVE Norm(_)
\* a digit sequence without its leading zeros (zero is <<0>>)
Norm(d) ==
    IF d = <<>> THEN <<0>>
    ELSE IF Len(d) > 1 /\ d[1] = 0 THEN Norm(Tail(d))
    ELSE d

IsZero(d) == \A i \in 1..Len(d) : d[i] = 0

RECURSIVE NatToDec(_)
NatToDec(n) == IF n < 10 THEN <<n>> ELSE NatToDec(n \div 10) \o <<n % 10>>

RECURSIVE MulSmallR(_, _, _)
MulSmallR(d, m, carry) ==
    IF d = <<>> THEN (IF carry = 0 THEN <<>> ELSE NatToDec(carry))
    ELSE LET n == Len(d)
             t == d[n] * m + carry
         IN  MulSmallR(SubSeq(d, 1, n - 1), m, t \div 10) \o <<t % 10>>

\* d * m, for a small natural m
MulSmall(d, m) == Norm(MulSmallR(d, m, 0))

RECURSIVE DivSmallR(_, _, _)
DivSmallR(d, m, rem) ==
    IF d = <<>> THEN [q |-> <<>>, r |-> rem]
    ELSE LET cur  == rem * 10 + Head(d)
             rest == DivSmallR(Tail(d), m, cur % m)
         IN  [q |-> <<cur \div m>> \o rest.q, r |-> rest.r]

\* quotient and remainder of d by a small natural m
DivSmall(d, m) ==
    LET x == DivSmallR(d, m, 0) IN [q |-> Norm(x.q), r |-> x.r]

RECURSIVE CmpR(_, _)
CmpR(a, b) ==
    IF a = <<>> THEN 0
    ELSE IF Head(a) < Head(b) THEN -1
    ELSE IF Head(a) > Head(b) THEN 1
    ELSE CmpR(Tail(a), Tail(b))

\* -1, 0 or 1 as a is below, equal to or above b
DecCmp(a, b) ==
    LET x == Norm(a)
        y == Norm(b)
    IN  IF Len(x) < Len(y) THEN -1
        ELSE IF Len(x) > Len(y) THEN 1
        ELSE CmpR(x, y)

DecLess(a, b) == DecCmp(a, b) = -1

RECURSIVE AddR(_, _, _)
AddR(a, b, carry) ==
    IF a = <<>> /\ b = <<>> THEN (IF carry = 0 THEN <<>> ELSE <<carry>>)
    ELSE LET x == IF a = <<>> THEN 0 ELSE a[Len(a)]
             y == IF b = <<>> THEN 0 ELSE b[Len(b)]
             t == x + y + carry
             ra == IF a = <<>> THEN <<>> ELSE SubSeq(a, 1, Len(a) - 1)
             rb == IF b = <<>> THEN <<>> ELSE SubSeq(b, 1, Len(b) - 1)
         IN  AddR(ra, rb, t \div 10) \o <<t % 10>>

DecAdd(a, b) == Norm(AddR(a, b, 0))

Zeros(k) == [i \in 1..k |-> 0]

RECURSIVE Times2(_, _)
\* d * 2^n, at most twenty doublings at a time
Times2(d, n) ==
    IF n = 0 THEN Norm(d)
    ELSE LET c == IF n > 20 THEN 20 ELSE n
         IN  Times2(MulSmall(d, 2 ^ c), n - c)


(***************************************************************************)
(* strings.Fields: the maximal runs of non-space characters of a text.     *)
(***************************************************************************)
Space == {" ", "\n", "\t"}

RECURSIVE FieldsR(_, _, _)
FieldsR(s, cur, acc) ==
    IF s = <<>> THEN (IF cur = <<>> THEN acc ELSE Append(acc, cur))
    ELSE IF Head(s) \in Space
         THEN FieldsR(Tail(s), <<>>, IF cur = <<>> THEN acc ELSE Append(acc, cur))
         ELSE FieldsR(Tail(s), Append(cur, Head(s)), acc)

Fields(s) == FieldsR(s, <<>>, <<>>)

(***************************************************************************)
(* float64: a finite value is (-1)^neg * sig * 2^exp with sig < 2^53 (or   *)
(* exactly 2^53 after a carry, the same value as 2^52 * 2^(exp+1)).  The   *)
(* exponent range is not modelled: no token the model reads is long enough *)
(* to leave it.                                                            *)
(***************************************************************************)
Pow2_53 == <<9, 0, 0, 7, 1, 9, 9, 2, 5, 4, 7, 4, 0, 9, 9, 2>>

Pow2_52 == <<4, 5, 0, 3, 5, 9, 9, 6, 2, 7, 3, 7, 0, 4, 9, 6>>

IsOdd(d) == d[Len(d)] % 2 = 1

\* round to nearest, ties to even, given the first dropped bit and whether
\* anything below it was dropped
RoundEven(q, guard, sticky) ==
    IF guard = 1 /\ (sticky \/ IsOdd(q)) THEN DecAdd(q, <<1>>) ELSE q

RECURSIVE ShiftDown(_, _, _, _)
\* q / 2^n, with the bits dropped summarised in guard and sticky
ShiftDown(q, n, guard, sticky) ==
    IF n = 0 THEN [q |-> q, guard |-> guard, sticky |-> sticky]
    ELSE LET c    == IF n > 20 THEN 20 ELSE n
             half == 2 ^ (c - 1)
             h    == DivSmall(q, 2 * half)
         IN  ShiftDown(h.q, n - c, IF h.r >= half THEN 1 ELSE 0,
                       sticky \/ guard = 1 \/ h.r % half # 0)

RECURSIVE ScaleUp(_, _, _)
\* the least s (from s0) with m * 2^(s - s0) >= bound, and that product
ScaleUp(m, s, bound) ==
    IF ~DecLess(m, bound) THEN [m |-> m, s |-> s]
    ELSE ScaleUp(MulSmall(m, 2), s + 1, bound)

RECURSIVE Narrow(_, _, _, _)
\* halve q until it fits 53 bits, counting the halvings
Narrow(q, t, guard, sticky) ==
    IF DecLess(q, Pow2_53) THEN [q |-> q, t |-> t, guard |-> guard, sticky |-> sticky]
    ELSE LET h == DivSmall(q, 2)
         IN  Narrow(h.q, t + 1, h.r, sticky \/ guard = 1)

Finite(neg, sig, exp) == [kind |-> "finite", neg |-> neg, sig |-> sig, exp |-> exp]

\* the float64 nearest to n / 10^k (n a digit sequence)
NearestFloat(neg, n, k) ==
    IF IsZero(n) THEN Finite(neg, <<0>>, 0)
    ELSE IF k = 0 /\ DecLess(n, Pow2_53) THEN Finite(neg, Norm(n), 0)
    ELSE LET up   == ScaleUp(Norm(n), 0, Pow2_52 \o Zeros(k))
             len  == Len(up.m)
             q    == Norm(SubSeq(up.m, 1, len - k))
             r    == SubSeq(up.m, len - k + 1, len)
             c    == DecCmp(MulSmall(r, 2), <<1>> \o Zeros(k))
             nar  == Narrow(q, 0, IF c >= 0 THEN 1 ELSE 0,
                            IF c = 0 THEN FALSE ELSE ~IsZero(r))
         IN  Finite(neg, RoundEven(nar.q, nar.guard, nar.sticky), nar.t - up.s)

InfText == <<"I", "n", "f">>

NaNText == <<"N", "a", "N">>

\* the index of the "." of s, or 0
DotAt(s) == IF \E i \in 1..Len(s) : s[i] = "."
            THEN CHOOSE i \in 1..Len(s) : s[i] = "." /\ \A j \in 1..(i - 1) : s[j] # "."
            ELSE 0

\* strconv.ParseFloat(s, 64) on texts without exponent, hexadecimal prefix or
\* underscore: [sign] digits [. digits] with at least one digit, or a special
ParseFloat(s) ==
    LET signed == s # <<>> /\ s[1] \in {"+", "-"}
        neg    == s # <<>> /\ s[1] = "-"
        body   == IF signed THEN Tail(s) ELSE s
        dot    == DotAt(body)
        ip     == IF dot = 0 THEN body ELSE SubSeq(body, 1, dot - 1)
        fp     == IF dot = 0 THEN <<>> ELSE SubSeq(body, dot + 1, Len(body))
        bad    == [ok |-> FALSE, f |-> Finite(FALSE, <<0>>, 0)]
    IN  IF s = NaNText THEN [ok |-> TRUE, f |-> [kind |-> "nan", neg |-> FALSE, sig |-> <<0>>, exp |-> 0]]
        ELSE IF body = InfText THEN [ok |-> TRUE, f |-> [kind |-> "inf", neg |-> neg, sig |-> <<0>>, exp |-> 0]]
        ELSE IF /\ Len(ip) + Len(fp) > 0
                /\ \A i \in 1..Len(ip) : IsDigit(ip[i])
                /\ \A i \in 1..Len(fp) : IsDigit(fp[i])
             THEN [ok |-> TRUE, f |-> NearestFloat(neg, ToDigits(ip \o fp), Len(fp))]
             ELSE bad

\* f * 2^n for a power of two: exact in float64
MulPow2(f, n) == IF f.kind = "finite" THEN [f EXCEPT !.exp = @ + n] ELSE f

\* fmt.Sprintf("%.0f", f): the nearest integer, ties to even, in decimal
FormatF0(f) ==
    IF f.kind = "nan" THEN NaNText
    ELSE IF f.kind = "inf" THEN (IF f.neg THEN <<"-">> ELSE <<"+">>) \o InfText
    ELSE LET int == IF f.exp >= 0 THEN Times2(f.sig, f.exp)
                    ELSE LET sh == ShiftDown(f.sig, 0 - f.exp, 0, FALSE)
                         IN  RoundEven(sh.q, sh.guard, sh.sticky)
         IN  (IF f.neg THEN <<"-">> ELSE <<>>) \o ToChars(int)

(***************************************************************************)
(* resource.Quantity: an exact integer amount, [neg, mag].  DiskUsage only *)
(* ever hands ParseQuantity the literal "0" or the output of FormatF0, so  *)
(* the suffix and fraction grammar of quantities is not modelled: a text   *)
(* that is not [sign] digits is rejected.                                  *)
(***************************************************************************)
ParseQuantity(s) ==
    LET signed == s # <<>> /\ s[1] \in {"+", "-"}
        body   == IF signed THEN Tail(s) ELSE s
        mag    == Norm(ToDigits(body))
    IN  IF body # <<>> /\ \A i \in 1..Len(body) : IsDigit(body[i])
        THEN [ok |-> TRUE,
              q  |-> [neg |-> (s[1] = "-") /\ ~IsZero(mag), mag |-> mag]]
        ELSE [ok |-> FALSE, q |-> [neg |-> FALSE, mag |-> <<0>>]]

(***************************************************************************)
(* What the outside world can answer.                                      *)
(***************************************************************************)
RECURSIVE Texts(_, _)
\* the texts of at most n characters of cs
Texts(cs, n) ==
    IF n = 0 THEN {<<>>}
    ELSE LET shorter == Texts(cs, n - 1)
         IN  shorter \cup {Append(t, c) : t \in shorter, c \in cs}

TokenChars == {"0", "5", "."}

\* magnitudes the generated tokens do not reach: the examples of the
\* conversion table, signed tokens, fractions with and without an exact
\* binary form, an integer above 2^53, and the special floats
LongTokens ==
    { <<"2">>, <<"-", "5">>, <<"-", "0">>, <<"-", ".", "5">>, <<"+", "5">>, <<"-">>,
      <<"0", ".", "1">>, <<"2", ".", "5">>,
      <<"9", "0", "0", "7", "1", "9", "9", "2", "5", "4", "7", "4", "0", "9", "9", "3">>,
      <<"+", "I", "n", "f">>, NaNText }

MagnitudeTokens == (Texts(TokenChars, MaxTokenLen) \ {<<>>}) \cup LongTokens

KiB == <<"K", "i", "B">>

MiB == <<"M", "i", "B">>

GiB == <<"G", "i", "B">>

TiB == <<"T", "i", "B">>

UnitTokens == {KiB, MiB, GiB, TiB, <<"B">>}

\* the output of `awk '{print $n}'` over the lines grep kept: nothing when no
\* line matched, a bare newline for a line without an n-th field, otherwise
\* one field per line
OutputsOf(tokens) ==
    {<<>>, <<"\n">>} \cup {t \o <<"\n">> : t \in tokens}

MagnitudeOutputs ==
    OutputsOf(MagnitudeTokens) \cup {<<"5", "\n", "0", "\n">>}

UnitOutputs == OutputsOf(UnitTokens)

\* exec.Command(...).CombinedOutput(): an error, or the text written
ExecResults(outs) ==
    {[failed |-> TRUE, out |-> <<>>]} \cup {[failed |-> FALSE, out |-> o] : o \in outs}

Paths == {"", "/var/lib/kubelet/pv"}

BlockSizes == {4, 16}

\* unix.Statfs: an error, or counts with bavail <= bfree <= blocks and
\* ffree <= files, as a filesystem reports them
StatfsResults ==
    {[failed |-> TRUE, Bsize |-> 0, Blocks |-> 0, Bfree |-> 0, Bavail |-> 0,
      Files |-> 0, Ffree |-> 0]}
    \cup
    {[failed |-> FALSE, Bsize |-> bs, Blocks |-> b, Bfree |-> f, Bavail |-> a,
      Files |-> n, Ffree |-> nf] :
        bs \in BlockSizes, b \in 0..MaxBlocks, f \in 0..MaxBlocks, a \in 0..MaxBlocks,
        n \in 0..MaxFiles, nf \in 0..MaxFiles}

ConsistentStatfs == {st \in StatfsResults :
                        st.Bavail <= st.Bfree /\ st.Bfree <= st.Blocks /\ st.Ffree <= st.Files}

(***************************************************************************)
(* yrfs.FsInfo                                                             *)
(***************************************************************************)
\* a value as a signed integer of Width bits
Int64(x) == ((x + 2 ^ (Width - 1)) % (2 ^ Width)) - 2 ^ (Width - 1)

\* FsInfo with the usage taken from the blocks available, not the blocks free
FsInfoUsageFromAvail(st) ==
    IF st.failed
    THEN [available |-> 0, capacity |-> 0, usage |-> 0, inodes |-> 0,
          inodesFree |-> 0, inodesUsed |-> 0, err |-> "statfs"]
    ELSE LET available  == Int64(Int64(st.Bavail) * Int64(st.Bsize))
             capacity   == Int64(Int64(st.Blocks) * Int64(st.Bsize))
             usage      == Int64(Int64(Int64(st.Blocks) - Int64(st.Bavail)) * Int64(st.Bsize))
             inodes     == Int64(st.Files)
             inodesFree == Int64(st.Ffree)
             inodesUsed == Int64(inodes - inodesFree)
         IN  [available |-> available, capacity |-> capacity, usage |-> usage,
              inodes |-> inodes, inodesFree |-> inodesFree,
              inodesUsed |-> inodesUsed, err |-> "nil"]

FsInfo(st) ==
    IF st.failed
    THEN [available |-> 0, capacity |-> 0, usage |-> 0, inodes |-> 0,
          inodesFree |-> 0, inodesUsed |-> 0, err |-> "statfs"]
    ELSE LET available  == Int64(Int64(st.Bavail) * Int64(st.Bsize))
             capacity   == Int64(Int64(st.Blocks) * Int64(st.Bsize))
             usage      == Int64(Int64(Int64(st.Blocks) - Int64(st.Bfree)) * Int64(st.Bsize))
             inodes     == Int64(st.Files)
             inodesFree == Int64(st.Ffree)
             inodesUsed == Int64(inodes - inodesFree)
         IN  [available |-> available, capacity |-> capacity, usage |-> usage,
              inodes |-> inodes, inodesFree |-> inodesFree,
              inodesUsed |-> inodesUsed, err |-> "nil"]

(***************************************************************************)
(* The state.                                                              *)
(***************************************************************************)
VARIABLES
    md,       \* the metricsYRFS: pathTmp (quota lookup) and path (statistics)
    pc,       \* where GetMetrics stands
    metrics,  \* the Metrics being filled; a field is {} (nil) or {value}
    result,   \* the error GetMetrics returned, "pending" before it returns
    probes,   \* the probes this call started, in order
    du,       \* the frame of yrfs.DiskUsage
    fd,       \* the frame of yrfs.Find, with its byteCounter
    statfs,   \* what unix.Statfs answered
    fsinfo    \* what yrfs.FsInfo returned

vars == <<md, pc, metrics, result, probes, du, fd, statfs, fsinfo>>

ZeroFloat == Finite(FALSE, <<0>>, 0)

NoReturn == [used |-> {}, err |-> "none"]

DuIdle == [pc |-> "idle", path |-> "", out1 |-> <<>>, out2 |-> <<>>,
           usedString |-> <<>>, usedFloat64 |-> ZeroFloat, usedUnit |-> <<>>,
           execs |-> <<>>, ret |-> NoReturn]

FdIdle == [pc |-> "idle", path |-> "", bytesWritten |-> 0, count |-> 0, err |-> "none"]

NoStatfs == [failed |-> TRUE, Bsize |-> 0, Blocks |-> 0, Bfree |-> 0, Bavail |-> 0,
             Files |-> 0, Ffree |-> 0]

NoFsInfo == [available |-> 0, capacity |-> 0, usage |-> 0, inodes |-> 0,
             inodesFree |-> 0, inodesUsed |-> 0, err |-> "none"]

EmptyMetrics == [Time |-> {}, Used |-> {}, InodesUsed |-> {}, Available |-> {},
                 Capacity |-> {}, Inodes |-> {}, InodesFree |-> {}]

\* metav1.Now(): some instant, never the zero time
Now == "now"

\* NewMetricsYRFS(pathTmp, path)
NewMetricsYRFS(pathTmp, path) == [pathTmp |-> pathTmp, path |-> path]

Init ==
    /\ md \in {NewMetricsYRFS(pt, p) : pt \in Paths, p \in Paths}
    /\ pc = "idle"
    /\ metrics = EmptyMetrics
    /\ result = "pending"
    /\ probes = <<>>
    /\ du = DuIdle
    /\ fd = FdIdle
    /\ statfs = NoStatfs
    /\ fsinfo = NoFsInfo

(***************************************************************************)
(* metricsYRFS.GetMetrics, up to its first probe.                          *)
(***************************************************************************)
\* GetMetrics without the check of the statistics path
GetMetricsNoPathCheck ==
    /\ pc = "idle"
    /\ metrics' = [EmptyMetrics EXCEPT !.Time = {Now}]
    /\ pc' = "runDiskUsage"
    /\ result' = "pending"
    /\ probes' = <<"DiskUsage">>
    /\ du' = [DuIdle EXCEPT !.pc = "exec1", !.path = md.pathTmp]
    /\ UNCHANGED <<md, fd, statfs, fsinfo>>

GetMetrics ==
    /\ pc = "idle"
    /\ metrics' = [EmptyMetrics EXCEPT !.Time = {Now}]
    /\ IF md.path = ""
       THEN /\ pc' = "returned"
            /\ result' = "NoPathDefined"
            /\ probes' = <<>>
            /\ du' = DuIdle
       ELSE /\ pc' = "runDiskUsage"
            /\ result' = "pending"
            /\ probes' = <<"DiskUsage">>
            /\ du' = [DuIdle EXCEPT !.pc = "exec1", !.path = md.pathTmp]
    /\ UNCHANGED <<md, fd, statfs, fsinfo>>

(***************************************************************************)
(* yrfs.DiskUsage                                                          *)
(***************************************************************************)
DuFail(frame, err) == [frame EXCEPT !.pc = "return", !.ret = [used |-> {}, err |-> err]]

\* the unit switch with the MiB case multiplying once
ScaleMiBOnce(f, unit) ==
    CASE unit = KiB -> MulPow2(f, 10)
      [] unit = MiB -> MulPow2(f, 10)
      [] unit = GiB -> MulPow2(MulPow2(MulPow2(f, 10), 10), 10)
      [] unit = TiB -> MulPow2(MulPow2(MulPow2(MulPow2(f, 10), 10), 10), 10)
      [] OTHER      -> MulPow2(f, 0)

\* the unit switch with a default case that scales as KiB
ScaleDefaultKiB(f, unit) ==
    CASE unit = KiB -> MulPow2(f, 10)
      [] unit = MiB -> MulPow2(MulPow2(f, 10), 10)
      [] unit = GiB -> MulPow2(MulPow2(MulPow2(f, 10), 10), 10)
      [] unit = TiB -> MulPow2(MulPow2(MulPow2(MulPow2(f, 10), 10), 10), 10)
      [] OTHER      -> MulPow2(f, 10)

\* the unit switch
Scale(f, unit) ==
    CASE unit = KiB -> MulPow2(f, 10)
      [] unit = MiB -> MulPow2(MulPow2(f, 10), 10)
      [] unit = GiB -> MulPow2(MulPow2(MulPow2(f, 10), 10), 10)
      [] unit = TiB -> MulPow2(MulPow2(MulPow2(MulPow2(f, 10), 10), 10), 10)
      [] OTHER      -> MulPow2(f, 0)

\* the guard without its test for the literal "0"
NeedsUnitUnlessEmpty(usedString) == usedString # <<>>

\* whether the magnitude needs parsing and a unit
NeedsUnit(usedString) == usedString # <<>> /\ usedString # <<"0">>

\* the first read, the magnitude token and its conversion to a float
DUExec1 ==
    /\ pc = "runDiskUsage"
    /\ du.pc = "exec1"
    /\ \E r \in ExecResults(MagnitudeOutputs) :
        LET ran    == [du EXCEPT !.execs = Append(@, "cmdTmpl1"), !.out1 = r.out]
            fields == Fields(r.out)
        IN  IF r.failed THEN du' = DuFail(ran, "CommandFailed") /\ pc' = pc
            ELSE IF Len(r.out) = 0 THEN du' = DuFail(ran, "NoValue") /\ pc' = pc
            ELSE IF Len(fields) = 0
                 THEN du' = [ran EXCEPT !.pc = "panic"] /\ pc' = "panicked"
            ELSE LET usedString == fields[1]
                     got        == [ran EXCEPT !.usedString = usedString]
                 IN  IF NeedsUnit(usedString)
                     THEN LET parsed == ParseFloat(usedString)
                          IN  /\ du' = IF parsed.ok
                                       THEN [got EXCEPT !.pc = "exec2", !.usedFloat64 = parsed.f]
                                       ELSE DuFail(got, "ConvertFailed")
                              /\ pc' = pc
                     ELSE du' = [got EXCEPT !.pc = "parse"] /\ pc' = pc
    /\ UNCHANGED <<md, metrics, result, probes, fd, statfs, fsinfo>>

\* the second read, the unit token, the scaling and the formatting
DUExec2 ==
    /\ pc = "runDiskUsage"
    /\ du.pc = "exec2"
    /\ \E r \in ExecResults(UnitOutputs) :
        LET ran    == [du EXCEPT !.execs = Append(@, "cmdTmpl2"), !.out2 = r.out]
            fields == Fields(r.out)
        IN  IF r.failed THEN du' = DuFail(ran, "CommandFailed") /\ pc' = pc
            ELSE IF Len(r.out) = 0 THEN du' = DuFail(ran, "NoUnit") /\ pc' = pc
            ELSE IF Len(fields) = 0
                 THEN du' = [ran EXCEPT !.pc = "panic"] /\ pc' = "panicked"
            ELSE LET usedUnit == fields[1]
                     scaled   == Scale(du.usedFloat64, usedUnit)
                 IN  /\ du' = [ran EXCEPT !.pc = "parse", !.usedUnit = usedUnit,
                                          !.usedFloat64 = scaled,
                                          !.usedString = FormatF0(scaled)]
                     /\ pc' = pc
    /\ UNCHANGED <<md, metrics, result, probes, fd, statfs, fsinfo>>

\* resource.ParseQuantity and the return
DUParse ==
    /\ pc = "runDiskUsage"
    /\ du.pc = "parse"
    /\ LET used == ParseQuantity(du.usedString)
       IN  du' = IF used.ok
                 THEN [du EXCEPT !.pc = "return",
                                 !.ret = [used |-> {[neg |-> used.q.neg, mag |-> used.q.mag,
                                                     Format |-> "BinarySI"]},
                                          err  |-> "nil"]]
                 ELSE DuFail(du, "ParseFailed")
    /\ UNCHANGED <<md, pc, metrics, result, probes, fd, statfs, fsinfo>>

\* GetMetrics going on to Find whatever runDiskUsage returned
RunDiskUsageContinues ==
    /\ pc = "runDiskUsage"
    /\ du.pc = "return"
    /\ metrics' = [metrics EXCEPT !.Used = du.ret.used]
    /\ pc' = "runFind"
    /\ probes' = Append(probes, "Find")
    /\ fd' = [FdIdle EXCEPT !.pc = "start", !.path = md.path]
    /\ du' = DuIdle
    /\ UNCHANGED <<md, result, statfs, fsinfo>>

\* runDiskUsage after DiskUsage returned, and GetMetrics up to its next probe
RunDiskUsage ==
    /\ pc = "runDiskUsage"
    /\ du.pc = "return"
    /\ IF du.ret.err # "nil"
       THEN /\ pc' = "returned"
            /\ result' = du.ret.err
            /\ UNCHANGED <<metrics, probes, fd>>
       ELSE /\ metrics' = [metrics EXCEPT !.Used = du.ret.used]
            /\ pc' = "runFind"
            /\ probes' = Append(probes, "Find")
            /\ fd' = [FdIdle EXCEPT !.pc = "start", !.path = md.path]
            /\ UNCHANGED result
    /\ du' = DuIdle
    /\ UNCHANGED <<md, statfs, fsinfo>>

(***************************************************************************)
(* yrfs.Find and its byteCounter                                           *)
(***************************************************************************)
FindStart ==
    /\ pc = "runFind"
    /\ fd.pc = "start"
    /\ \E started \in BOOLEAN :
        fd' = IF fd.path = "" THEN [fd EXCEPT !.pc = "return", !.err = "InvalidDirectory"]
              ELSE IF ~started THEN [fd EXCEPT !.pc = "return", !.err = "StartFailed"]
              ELSE [fd EXCEPT !.pc = "running"]
    /\ UNCHANGED <<md, pc, metrics, result, probes, du, statfs, fsinfo>>

\* byteCounter.Write(p), for the markers of the entries find visits next
Write ==
    /\ pc = "runFind"
    /\ fd.pc = "running"
    /\ \E len \in 1..MaxEntries :
        /\ fd.bytesWritten + len <= MaxEntries
        /\ fd' = [fd EXCEPT !.bytesWritten = @ + len]
    /\ UNCHANGED <<md, pc, metrics, result, probes, du, statfs, fsinfo>>

FindWait ==
    /\ pc = "runFind"
    /\ fd.pc = "running"
    /\ \E exited \in BOOLEAN :
        fd' = IF ~exited THEN [fd EXCEPT !.pc = "return", !.err = "WaitFailed"]
              ELSE [fd EXCEPT !.pc = "return", !.err = "nil", !.count = fd.bytesWritten]
    /\ UNCHANGED <<md, pc, metrics, result, probes, du, statfs, fsinfo>>

\* runFind after Find returned, and GetMetrics up to its next probe
RunFind ==
    /\ pc = "runFind"
    /\ fd.pc = "return"
    /\ IF fd.err # "nil"
       THEN /\ pc' = "returned"
            /\ result' = fd.err
            /\ UNCHANGED <<metrics, probes>>
       ELSE /\ metrics' = [metrics EXCEPT !.InodesUsed = {fd.count}]
            /\ pc' = "getFsInfo"
            /\ probes' = Append(probes, "FsInfo")
            /\ UNCHANGED result
    /\ fd' = FdIdle
    /\ UNCHANGED <<md, du, statfs, fsinfo>>

(***************************************************************************)
(* getFsInfo with the call of yrfs.FsInfo, and the return of GetMetrics    *)
(***************************************************************************)
\* getFsInfo writing the fields before it looks at the error
GetFsInfoWritesFirst ==
    /\ pc = "getFsInfo"
    /\ \E st \in ConsistentStatfs :
        LET got == FsInfo(st)
        IN  /\ statfs' = st
            /\ fsinfo' = got
            /\ result' = IF got.err # "nil" THEN "FsInfoFailed" ELSE "nil"
            /\ metrics' = [metrics EXCEPT !.Available = {got.available},
                                          !.Capacity = {got.capacity},
                                          !.Inodes = {got.inodes},
                                          !.InodesFree = {got.inodesFree}]
    /\ pc' = "returned"
    /\ UNCHANGED <<md, probes, du, fd>>

\* getFsInfo keeping the inode usage FsInfo computed
GetFsInfoKeepsInodesUsed ==
    /\ pc = "getFsInfo"
    /\ \E st \in ConsistentStatfs :
        LET got == FsInfo(st)
        IN  /\ statfs' = st
            /\ fsinfo' = got
            /\ IF got.err # "nil"
               THEN /\ result' = "FsInfoFailed"
                    /\ UNCHANGED metrics
               ELSE /\ result' = "nil"
                    /\ metrics' = [metrics EXCEPT !.Available = {got.available},
                                                  !.Capacity = {got.capacity},
                                                  !.Inodes = {got.inodes},
                                                  !.InodesFree = {got.inodesFree},
                                                  !.InodesUsed = {got.inodesUsed}]
    /\ pc' = "returned"
    /\ UNCHANGED <<md, probes, du, fd>>

GetFsInfo ==
    /\ pc = "getFsInfo"
    /\ \E st \in ConsistentStatfs :
        LET got == FsInfo(st)
        IN  /\ statfs' = st
            /\ fsinfo' = got
            /\ IF got.err # "nil"
               THEN /\ result' = "FsInfoFailed"
                    /\ UNCHANGED metrics
               ELSE /\ result' = "nil"
                    /\ metrics' = [metrics EXCEPT !.Available = {got.available},
                                                  !.Capacity = {got.capacity},
                                                  !.Inodes = {got.inodes},
                                                  !.InodesFree = {got.inodesFree}]
    /\ pc' = "returned"
    /\ UNCHANGED <<md, probes, du, fd>>

\* the scheduler takes the snapshot and polls again later
NextPoll ==
    /\ pc = "returned"
    /\ pc' = "idle"
    /\ metrics' = EmptyMetrics
    /\ result' = "pending"
    /\ probes' = <<>>
    /\ statfs' = NoStatfs
    /\ fsinfo' = NoFsInfo
    /\ UNCHANGED <<md, du, fd>>

Next ==
    \/ GetMetrics
    \/ DUExec1
    \/ DUExec2
    \/ DUParse
    \/ RunDiskUsage
    \/ FindStart
    \/ Write
    \/ FindWait
    \/ RunFind
    \/ GetFsInfo
    \/ NextPoll

Spec == Init /\ [][Next]_vars

(***************************************************************************)
(* Vocabulary of the properties.                                           *)
(***************************************************************************)
ProbeOrder == <<"DiskUsage", "Find", "FsInfo">>

DuErrors == {"CommandFailed", "NoValue", "NoUnit", "ConvertFailed", "ParseFailed"}

FindErrors == {"InvalidDirectory", "StartFailed", "WaitFailed"}

SizeFields == {"Used", "InodesUsed", "Available", "Capacity", "Inodes", "InodesFree"}

\* the fields of the snapshot that are set
Populated == {f \in SizeFields : metrics[f] # {}}

\* DiskUsage has ended, by returning or by panicking
DuEnded == du.pc \in {"return", "panic"}

HasMagnitude == Len(Fields(du.out1)) > 0

HasUnit == Len(Fields(du.out2)) > 0

\* the first field of the first read, the first field of the second
DuToken == Fields(du.out1)[1]

DuUnit == Fields(du.out2)[1]

\* a plain decimal numeral [sign] digits [. digits]: its sign, its digits
\* and the number of them after the point
Numeral(t) ==
    LET signed == t # <<>> /\ t[1] \in {"+", "-"}
        body   == IF signed THEN Tail(t) ELSE t
        dot    == DotAt(body)
        digits == IF dot = 0 THEN body
                  ELSE SubSeq(body, 1, dot - 1) \o SubSeq(body, dot + 1, Len(body))
    IN  IF digits # <<>> /\ \A i \in 1..Len(digits) : IsDigit(digits[i])
        THEN [ok |-> TRUE, neg |-> t[1] = "-", n |-> Norm(ToDigits(digits)),
              k |-> IF dot = 0 THEN 0 ELSE Len(body) - dot]
        ELSE [ok |-> FALSE, neg |-> FALSE, n |-> <<0>>, k |-> 0]

\* how many times the conversion table multiplies by 1024 for a unit
UnitPower(u) ==
    CASE u = KiB -> 1 [] u = MiB -> 2 [] u = GiB -> 3 [] u = TiB -> 4 [] OTHER -> 0

RECURSIVE Times1024(_, _)
Times1024(d, j) == IF j = 0 THEN Norm(d) ELSE Times1024(MulSmall(d, 1024), j - 1)

\* the quantity DiskUsage returned
Returned == CHOOSE q \in du.ret.used : TRUE

ReturnedOk == du.pc = "return" /\ du.ret.err = "nil" /\ du.ret.used # {}

\* both reads were made and each gave a token, the first one a numeral
Scaled == /\ du.pc = "return"
          /\ Len(du.execs) = 2
          /\ HasMagnitude /\ HasUnit
          /\ Numeral(DuToken).ok

\* the exact product magnitude * 1024^power, as digits over 10^k
ExactProduct == Times1024(Numeral(DuToken).n, UnitPower(DuUnit))

ProductIsInteger ==
    LET k == Numeral(DuToken).k
        p == ExactProduct
    IN  k = 0 \/ (Len(p) > k /\ IsZero(SubSeq(p, Len(p) - k + 1, Len(p)))) \/ IsZero(p)

\* the integer part of the exact product
ProductFloor ==
    LET k == Numeral(DuToken).k
        p == ExactProduct
    IN  IF Len(p) > k THEN SubSeq(p, 1, Len(p) - k) ELSE <<0>>

\* the returned amount is exactly the product
ReturnsProduct ==
    /\ ReturnedOk
    /\ ProductIsInteger
    /\ Returned.mag = ProductFloor
    /\ Returned.neg = (Numeral(DuToken).neg /\ ~IsZero(ProductFloor))

\* the returned amount is less than 1 away from the product
ReturnsRoundedProduct ==
    LET k    == Numeral(DuToken).k
        unit == <<1>> \o Zeros(k)
        got  == Returned.mag \o Zeros(k)
    IN  /\ ReturnedOk
        /\ DecLess(got, DecAdd(ExactProduct, unit))
        /\ DecLess(ExactProduct, DecAdd(got, unit))
        /\ (Returned.neg => Numeral(DuToken).neg)

(***************************************************************************)
(* The properties.                                                         *)
(***************************************************************************)

\* C1: in every GetMetrics call the probes start in the order DiskUsage,
\* Find, FsInfo, each at most once, and a probe starts only from the
\* successful return of the one before it; a probe that never started has
\* done nothing (no frame, no statfs answer).
C1_ProbesInOrder ==
    [][/\ (probes' # probes /\ probes' # <<>>) =>
            LET n == Len(probes')
            IN  /\ n = Len(probes) + 1
                /\ n <= Len(ProbeOrder)
                /\ SubSeq(probes', 1, n - 1) = probes
                /\ probes'[n] = ProbeOrder[n]
                /\ (n = 1 => pc = "idle")
                /\ (n = 2 => du.pc = "return" /\ du.ret.err = "nil")
                /\ (n = 3 => fd.pc = "return" /\ fd.err = "nil")
       /\ (du'.pc # "idle" => probes' = <<"DiskUsage">>)
       /\ (fd'.pc # "idle" => probes' = <<"DiskUsage", "Find">>)
       /\ (statfs' # NoStatfs => probes' = ProbeOrder)
       /\ (result' \in DuErrors => probes' = <<"DiskUsage">>)
       /\ (result' \in FindErrors => probes' = <<"DiskUsage", "Find">>)
      ]_vars

\* C1 witness: a call that ended on a failure of the quota reader, with
\* DiskUsage the only probe started
C1_Witness ==
    pc = "returned" /\ result \in DuErrors /\ probes = <<"DiskUsage">>

\* C2: with an empty statistics path GetMetrics returns NoPathDefined and
\* no probe has run, whatever the quota-lookup path
C2_EmptyPathNoProbe ==
    md.path = "" =>
        /\ pc \in {"idle", "returned"}
        /\ probes = <<>>
        /\ du = DuIdle /\ fd = FdIdle /\ statfs = NoStatfs /\ fsinfo = NoFsInfo
        /\ (pc = "returned" => result = "NoPathDefined")

\* C2 witness: the call returned for an empty statistics path and a
\* non-empty quota-lookup path
C2_Witness ==
    md.path = "" /\ md.pathTmp # "" /\ pc = "returned"

\* C3: a snapshot returned with a failure has its timestamp set and exactly
\* the fields of the probes that completed before the failing step
C3_PartialSnapshot ==
    (pc = "returned" /\ result # "nil") =>
        /\ metrics.Time = {Now}
        /\ (result \in DuErrors \cup {"NoPathDefined"} => Populated = {})
        /\ (result \in FindErrors => Populated = {"Used"})
        /\ (result = "FsInfoFailed" => Populated = {"Used", "InodesUsed"})
        /\ result \in DuErrors \cup FindErrors \cup {"NoPathDefined", "FsInfoFailed"}

\* C3 witness: the statistics probe failed after the other two succeeded
C3_Witness ==
    pc = "returned" /\ result = "FsInfoFailed" /\ statfs.failed

\* C4: when all three probes succeed GetMetrics returns no failure, Used is
\* what DiskUsage returned, InodesUsed is what Find counted, the other four
\* fields are what FsInfo returned, and FsInfo's own usage and inodesUsed
\* reach no field (Used and InodesUsed are left as the first two probes set
\* them)
C4_SnapshotOnSuccess ==
    [][/\ (pc = "runDiskUsage" /\ du.pc = "return" /\ du.ret.err = "nil") =>
            metrics' = [metrics EXCEPT !.Used = du.ret.used]
       /\ (pc = "runFind" /\ fd.pc = "return" /\ fd.err = "nil") =>
            metrics' = [metrics EXCEPT !.InodesUsed = {fd.count}]
       /\ (pc = "getFsInfo" /\ fsinfo'.err = "nil") =>
            /\ pc' = "returned" /\ result' = "nil"
            /\ metrics'.Time = {Now}
            /\ metrics'.Used = metrics.Used /\ metrics.Used # {}
            /\ metrics'.InodesUsed = metrics.InodesUsed /\ metrics.InodesUsed # {}
            /\ metrics'.Available = {fsinfo'.available}
            /\ metrics'.Capacity = {fsinfo'.capacity}
            /\ metrics'.Inodes = {fsinfo'.inodes}
            /\ metrics'.InodesFree = {fsinfo'.inodesFree}
       /\ (result' = "nil") => (probes' = ProbeOrder /\ fsinfo'.err = "nil")
      ]_vars

\* C4 witness: a successful call whose counted entries differ from the
\* inode usage the statistics probe computed, and whose usage is not zero
C4_Witness ==
    /\ pc = "returned" /\ result = "nil"
    /\ metrics.InodesUsed # {fsinfo.inodesUsed}
    /\ fsinfo.usage # 0
    /\ \E q \in metrics.Used : ~IsZero(q.mag)

C7_ZeroOrEmptySkipsUnit ==
    (/\ DuEnded
     /\ ~(du.pc = "return" /\ du.ret.err = "CommandFailed")
     /\ (~HasMagnitude \/ DuToken = <<"0">>))
    => /\ du.execs = <<"cmdTmpl1">>
       /\ ReturnedOk
       /\ IsZero(Returned.mag)

\* C7 amended: a magnitude that is exactly "0" never leads to the unit read
\* and DiskUsage returns a zero quantity with no failure; an empty output of
\* the magnitude read makes DiskUsage fail, again without the unit read
C7_ZeroSkipsUnit ==
    /\ (du.pc # "idle" /\ HasMagnitude /\ DuToken = <<"0">>) =>
            /\ du.execs = <<"cmdTmpl1">>
            /\ du.pc \in {"parse", "return"}
            /\ (du.pc = "return" => ReturnedOk /\ IsZero(Returned.mag) /\ ~Returned.neg)
    /\ (du.pc # "idle" /\ du.execs # <<>> /\ du.out1 = <<>>) =>
            /\ du.execs = <<"cmdTmpl1">>
            /\ du.pc = "return"
            /\ du.ret.used = {}
            /\ du.ret.err \in {"NoValue", "CommandFailed"}

\* C7 witness: DiskUsage returned for the magnitude "0"
C7_Witness ==
    du.pc = "return" /\ HasMagnitude /\ DuToken = <<"0">>

\* C8: a DiskUsage call never ends in a panic, and when it returns it
\* returns a quantity or a failure, never both and never neither
C8_QuantityOrFailure ==
    /\ pc # "panicked"
    /\ du.pc # "panic"
    /\ (du.pc = "return" => ((du.ret.used = {}) <=> (du.ret.err # "nil")))

\* C9: the quantity a successful DiskUsage call returns is never negative
C9_NeverNegative ==
    ReturnedOk => ~Returned.neg

\* in Width-bit arithmetic: x is the signed value congruent to y
SameWord(x, y) ==
    /\ (x - y) % (2 ^ Width) = 0
    /\ x >= 0 - 2 ^ (Width - 1)
    /\ x < 2 ^ (Width - 1)

\* what FsInfo returns is the products and differences of the answer of
\* statfs, in signed arithmetic of the word width
FsInfoArithmetic ==
    /\ SameWord(fsinfo.available, statfs.Bavail * statfs.Bsize)
    /\ SameWord(fsinfo.capacity, statfs.Blocks * statfs.Bsize)
    /\ SameWord(fsinfo.usage, (statfs.Blocks - statfs.Bfree) * statfs.Bsize)
    /\ SameWord(fsinfo.usage, fsinfo.capacity - statfs.Bfree * statfs.Bsize)
    /\ SameWord(fsinfo.inodes, statfs.Files)
    /\ SameWord(fsinfo.inodesFree, statfs.Ffree)
    /\ SameWord(fsinfo.inodesUsed, fsinfo.inodes - fsinfo.inodesFree)

\* the capacity fits the signed word
CapacityFits == statfs.Blocks * statfs.Bsize < 2 ^ (Width - 1)

\* C10 as stated: FsInfo returns the products and differences, and
\* available <= capacity
C10_FsInfoOrdered ==
    fsinfo.err = "nil" =>
        /\ FsInfoArithmetic
        /\ fsinfo.available <= fsinfo.capacity

\* C10 amended: FsInfo returns the products and differences in wrapping
\* signed arithmetic, and available <= capacity whenever blocks * bsize does
\* not overflow the signed word (with bavail <= blocks and bsize >= 0)
C10_FsInfoOrderedNoOverflow ==
    fsinfo.err = "nil" =>
        /\ FsInfoArithmetic
        /\ (CapacityFits => fsinfo.available <= fsinfo.capacity)

\* C10 witness: an answer with bavail < bfree < blocks whose capacity fits
C10_Witness ==
    /\ fsinfo.err = "nil"
    /\ CapacityFits
    /\ statfs.Bavail < statfs.Bfree /\ statfs.Bfree < statfs.Blocks
    /\ statfs.Bsize > 1
    /\ statfs.Ffree < statfs.Files

=============================================================================
